---- MODULE Spec2Model ----
(***************************************************************************)
(* Model of blogicum/blog/views.py: the query layer, the pagination helper *)
(* and the eleven view handlers, over a relational store of posts,         *)
(* comments, users and categories.                                         *)
(***************************************************************************)
EXTENDS Integers, Sequences, FiniteSets

(* ------------------------------ bounds -------------------------------- *)
\* ids handed out by the posts table (auto-increment, never reused)
MaxPosts == 2
\* ids handed out by the comments table
MaxComments == 1
\* the clock runs over 0..MaxTime; pub_date is drawn from the same range
MaxTime == 1
\* longest queryset handed to the paginator in SpecPage
MaxCount == 21

\* views.py:11
NUMBER_OF_PAGINATOR_PAGES == 10

(* ------------------------------ domains ------------------------------- *)
Users == {"u1", "u2"}
\* request.user of a request without a session (AnonymousUser)
Anon == "anon"
Requesters == Users \cup {Anon}
\* usernames a profile URL can carry: the users and one that is nobody's
Usernames == Users \cup {"ghost"}
\* category slugs present in the Category table
Slugs == {"news", "misc"}
\* slugs a category URL can carry
SlugArgs == Slugs \cup {"ghost"}
\* Post.category is nullable
NoCat == "none"
Methods == {"GET", "POST"}
PostIds == 1..MaxPosts
CommentIds == 1..MaxComments
Times == 0..MaxTime
Names == {"a", "b"}
Texts == {"x", "y"}

\* cleaned data of a valid PostForm (author is not a form field)
PostData ==
    [is_published : BOOLEAN, category : Slugs \cup {NoCat}, pub_date : Times]
\* the two post forms the store-level specification submits
PostDataStore ==
    { [is_published |-> TRUE, category |-> "misc", pub_date |-> 0],
      [is_published |-> FALSE, category |-> "news", pub_date |-> MaxTime] }

\* A request body: nothing submitted, fields that fail validation, or fields
\* that pass it (data holds the cleaned data).
EmptyBody == [kind |-> "empty", data |-> "-"]
BadBody == [kind |-> "bad", data |-> "-"]
OkBody(d) == [kind |-> "ok", data |-> d]
Bodies(D) == {EmptyBody, BadBody} \cup {OkBody(d) : d \in D}

\* the `page` query parameter: absent, not an integer, or an integer
NoPage == [kind |-> "none", n |-> 0]
TextPage == [kind |-> "text", n |-> 0]
IntPage(k) == [kind |-> "int", n |-> k]
PageParams == {NoPage, TextPage} \cup {IntPage(k) : k \in (-1..4) \cup {999}}
\* page parameters the listing views are requested with
FeedPages == {NoPage, IntPage(999)}

VARIABLES
    posts,          \* Post table: id -> [author, is_published, category, pub_date]
    comments,       \* Comment table: id -> [author, post, text]
    users,          \* User table: username -> first name (the UserForm field)
    categories,     \* Category table: slug -> is_published
    now,            \* timezone.now()
    nextPostId,     \* next id of the Post table
    nextCommentId,  \* next id of the Comment table
    qs,             \* the queryset under pagination in SpecPage
    resp            \* the last request and the response it got

vars == <<posts, comments, users, categories, now, nextPostId, nextCommentId,
          qs, resp>>
store == <<posts, comments, users, categories, nextPostId, nextCommentId>>

(* ------------------------------ helpers ------------------------------- *)
Min(a, b) == IF a < b THEN a ELSE b
Range(q) == {q[i] : i \in 1..Len(q)}
UpTo(n) == [i \in 1..n |-> i]

\* the response record; fields a handler does not set keep these defaults
NoResp ==
    [view |-> "", user |-> Anon, method |-> "GET", body |-> "empty",
     post_id |-> 0, comment_id |-> 0, name |-> "", param |-> NoPage,
     status |-> "", target |-> "", form |-> "none",
     listing |-> << >>, items |-> << >>, number |-> 0, num_pages |-> 0,
     shown |-> {}]

Req(view, u, m, b) ==
    [NoResp EXCEPT !.view = view, !.user = u, !.method = m, !.body = b.kind]

\* render(request, template, context)
Render(r, template) == [r EXCEPT !.status = "render", !.target = template]
\* redirect(route, ...)
Redirect(r, route) == [r EXCEPT !.status = "redirect", !.target = route]
\* raise Http404 / get_object_or_404 finding nothing
NotFound(r) == [r EXCEPT !.status = "404"]
\* @login_required answering an anonymous request
ToLogin(r) == [r EXCEPT !.status = "login", !.target = "login"]

\* Form(request.POST or None, ...): the form is bound only to a non-empty
\* POST dictionary, and request.POST is empty on every other method
FormBound(m, b) == m = "POST" /\ b.kind # "empty"
\* form.is_valid(): an unbound form is never valid
is_valid(m, b) == FormBound(m, b) /\ b.kind = "ok"
FormState(m, b) ==
    IF ~FormBound(m, b) THEN "unbound"
    ELSE IF b.kind = "ok" THEN "valid" ELSE "invalid"

\* on_delete of Comment.post: the comments of a deleted post go with it
Cascade(pid) ==
    [c \in {c \in DOMAIN comments : comments[c].post # pid} |-> comments[c]]
Without(f, k) == [x \in DOMAIN f \ {k} |-> f[x]]
With(f, k, v) == [x \in DOMAIN f \cup {k} |-> IF x = k THEN v ELSE f[x]]

(* ------------------------------ paginator ----------------------------- *)
\* Paginator.num_pages with orphans = 0 and allow_empty_first_page = True
NumPages(n, per_page) ==
    IF n = 0 THEN 1 ELSE (n + per_page - 1) \div per_page

\* Paginator.get_page(number): validate_number raises PageNotAnInteger for
\* None or a non-integer, which get_page answers with page 1, and EmptyPage
\* for a number below 1 or above num_pages, which it answers with the last.
GetPageNumber_low_is_first(param, n, per_page) ==
    IF param.kind # "int" THEN 1
    ELSE IF param.n < 1 THEN 1
    ELSE IF param.n > NumPages(n, per_page) THEN NumPages(n, per_page)
    ELSE param.n

GetPageNumber(param, n, per_page) ==
    IF param.kind # "int" THEN 1
    ELSE IF param.n < 1 THEN NumPages(n, per_page)
    ELSE IF param.n > NumPages(n, per_page) THEN NumPages(n, per_page)
    ELSE param.n

\* Paginator.page(number): object_list[bottom:top]
PageItems(q, number, per_page) ==
    SubSeq(q, (number - 1) * per_page + 1, Min(number * per_page, Len(q)))

\* get_paginated_page(request, queryset, number_of_pages)
get_paginated_page(param, q, per_page) ==
    [number |-> GetPageNumber(param, Len(q), per_page),
     num_pages |-> NumPages(Len(q), per_page),
     items |-> PageItems(q, GetPageNumber(param, Len(q), per_page), per_page)]

WithPage(r, param, q) ==
    LET pg == get_paginated_page(param, q, NUMBER_OF_PAGINATOR_PAGES)
    IN  [r EXCEPT !.param = param, !.listing = q, !.items = pg.items,
                  !.number = pg.number, !.num_pages = pg.num_pages]

(* ------------------------------ query layer --------------------------- *)
\* order_by('-pub_date') over a set of post ids: every arrangement the
\* database may return, rows of equal pub_date in any order
OrderByPubDateDesc(S) ==
    { q \in [1..Cardinality(S) -> S] :
        /\ \A i, j \in 1..Cardinality(S) : i # j => q[i] # q[j]
        /\ \A i, j \in 1..Cardinality(S) :
              i < j => posts[q[i]].pub_date >= posts[q[j]].pub_date }

\* get_posts(author=profile)
get_posts(author) ==
    OrderByPubDateDesc({p \in DOMAIN posts : posts[p].author = author})

\* category__is_published=True: the join drops posts without a category
CategoryPublished(p) ==
    posts[p].category # NoCat /\ categories[posts[p].category]

get_filtered_posts_qs_no_date_mut ==
    { p \in DOMAIN posts : posts[p].is_published /\ CategoryPublished(p) }

get_filtered_posts_qs ==
    { p \in DOMAIN posts :
        /\ posts[p].is_published
        /\ CategoryPublished(p)
        /\ posts[p].pub_date <= now }

(* ------------------------------ read views ---------------------------- *)
\* index(request); request.user is not read
index(param) ==
    /\ \E q \in OrderByPubDateDesc(get_filtered_posts_qs) :
          resp' = Render(WithPage(Req("index", Anon, "GET", EmptyBody), param, q),
                         "blog/index.html")
    /\ UNCHANGED <<store, now, qs>>

\* get_object_or_404(Category, slug=category_slug, is_published=True)
CategoryFound_any_mut(slug) == slug \in DOMAIN categories

CategoryFound(slug) == slug \in DOMAIN categories /\ categories[slug]

\* category_posts(request, category_slug); request.user is not read
category_posts(slug, param) ==
    /\ LET r == [Req("category_posts", Anon, "GET", EmptyBody) EXCEPT !.name = slug]
       IN  IF ~CategoryFound(slug)
           THEN resp' = NotFound(r)
           ELSE \E q \in OrderByPubDateDesc(
                          {p \in get_filtered_posts_qs : posts[p].category = slug}) :
                   resp' = Render(WithPage(r, param, q), "blog/post_list.html")
    /\ UNCHANGED <<store, now, qs>>

\* the test of post_detail that lets a found post through
DetailAllowed(u, pid) ==
    ~(~posts[pid].is_published /\ posts[pid].author # u)

\* post_detail(request, post_id)
post_detail(u, pid) ==
    /\ LET r == [Req("post_detail", u, "GET", EmptyBody) EXCEPT !.post_id = pid]
       IN  IF pid \notin DOMAIN posts
           THEN resp' = NotFound(r)
           ELSE IF ~DetailAllowed(u, pid)
           THEN resp' = NotFound(r)
           ELSE resp' = Render(
                   [r EXCEPT !.form = "unbound",
                             !.shown = {c \in DOMAIN comments : comments[c].post = pid}],
                   "blog/post_detail.html")
    /\ UNCHANGED <<store, now, qs>>

\* the queryset profile paginates
ProfilePosts_all_mut(u, username) == get_posts(username)

ProfilePosts(u, username) ==
    IF u # username
    THEN OrderByPubDateDesc(
            {p \in get_filtered_posts_qs : posts[p].author = username})
    ELSE get_posts(username)

\* profile(request, username)
profile(u, username, param) ==
    /\ LET r == [Req("profile", u, "GET", EmptyBody) EXCEPT !.name = username]
       IN  IF username \notin DOMAIN users
           THEN resp' = NotFound(r)
           ELSE \E q \in ProfilePosts(u, username) :
                   resp' = Render(WithPage(r, param, q), "blog/profile.html")
    /\ UNCHANGED <<store, now, qs>>

(* ------------------------------ write views --------------------------- *)
\* @login_required: an anonymous request is sent to the login page
NeedsLogin_never_mut(u) == FALSE

NeedsLogin(u) == u = Anon

\* request.user != post.author, request.user != comment.author
NotAuthor_never_mut(u, obj) == FALSE

NotAuthor(u, obj) == u # obj.author

\* request.method == 'POST' in the two delete views
DeleteConfirmed_any_mut(m) == TRUE

DeleteConfirmed(m) == m = "POST"

\* create_post(request)
create_post(u, m, b) ==
    LET r == [Req("create_post", u, m, b) EXCEPT !.form = FormState(m, b)]
    IN  IF NeedsLogin(u)
        THEN /\ resp' = ToLogin(Req("create_post", u, m, b))
             /\ UNCHANGED <<store, now, qs>>
        ELSE IF is_valid(m, b)
        THEN /\ nextPostId <= MaxPosts
             /\ posts' = With(posts, nextPostId,
                              [author |-> u,
                               is_published |-> b.data.is_published,
                               category |-> b.data.category,
                               pub_date |-> b.data.pub_date])
             /\ nextPostId' = nextPostId + 1
             /\ resp' = Redirect([r EXCEPT !.post_id = nextPostId, !.name = u],
                                 "blog:profile")
             /\ UNCHANGED <<comments, users, categories, nextCommentId, now, qs>>
        ELSE /\ resp' = Render(r, "blog/create.html")
             /\ UNCHANGED <<store, now, qs>>

\* edit_post(request, post_id)
edit_post(u, m, b, pid) ==
    LET r0 == [Req("edit_post", u, m, b) EXCEPT !.post_id = pid]
        r == [r0 EXCEPT !.form = FormState(m, b)]
    IN  IF NeedsLogin(u)
        THEN /\ resp' = ToLogin(r0)
             /\ UNCHANGED <<store, now, qs>>
        ELSE IF pid \notin DOMAIN posts
        THEN /\ resp' = NotFound(r0)
             /\ UNCHANGED <<store, now, qs>>
        ELSE IF NotAuthor(u, posts[pid])
        THEN /\ resp' = Redirect(r0, "blog:post_detail")
             /\ UNCHANGED <<store, now, qs>>
        ELSE IF is_valid(m, b)
        THEN /\ posts' = [posts EXCEPT ![pid] =
                              [author |-> posts[pid].author,
                               is_published |-> b.data.is_published,
                               category |-> b.data.category,
                               pub_date |-> b.data.pub_date]]
             /\ resp' = Redirect(r, "blog:post_detail")
             /\ UNCHANGED <<comments, users, categories, nextPostId,
                            nextCommentId, now, qs>>
        ELSE /\ resp' = Render(r, "blog/create.html")
             /\ UNCHANGED <<store, now, qs>>

\* delete_post(request, post_id)
delete_post(u, m, b, pid) ==
    LET r0 == [Req("delete_post", u, m, b) EXCEPT !.post_id = pid]
    IN  IF NeedsLogin(u)
        THEN /\ resp' = ToLogin(r0)
             /\ UNCHANGED <<store, now, qs>>
        ELSE IF pid \notin DOMAIN posts
        THEN /\ resp' = NotFound(r0)
             /\ UNCHANGED <<store, now, qs>>
        ELSE IF NotAuthor(u, posts[pid])
        THEN /\ resp' = Redirect(r0, "blog:post_detail")
             /\ UNCHANGED <<store, now, qs>>
        ELSE IF DeleteConfirmed(m)
        THEN /\ posts' = Without(posts, pid)
             /\ comments' = Cascade(pid)
             /\ resp' = Redirect(r0, "blog:index")
             /\ UNCHANGED <<users, categories, nextPostId, nextCommentId,
                            now, qs>>
        ELSE /\ resp' = Render([r0 EXCEPT !.form = "unbound"], "blog/create.html")
             /\ UNCHANGED <<store, now, qs>>

\* add_comment(request, post_id)
add_comment(u, m, b, pid) ==
    LET r0 == [Req("add_comment", u, m, b) EXCEPT !.post_id = pid]
        r == [r0 EXCEPT !.form = FormState(m, b)]
    IN  IF NeedsLogin(u)
        THEN /\ resp' = ToLogin(r0)
             /\ UNCHANGED <<store, now, qs>>
        ELSE IF pid \notin DOMAIN posts
        THEN /\ resp' = NotFound(r0)
             /\ UNCHANGED <<store, now, qs>>
        ELSE IF is_valid(m, b)
        THEN /\ nextCommentId <= MaxComments
             /\ comments' = With(comments, nextCommentId,
                                 [author |-> u, post |-> pid, text |-> b.data])
             /\ nextCommentId' = nextCommentId + 1
             /\ resp' = Redirect([r EXCEPT !.comment_id = nextCommentId],
                                 "blog:post_detail")
             /\ UNCHANGED <<posts, users, categories, nextPostId, now, qs>>
        ELSE /\ resp' = Redirect(r, "blog:post_detail")
             /\ UNCHANGED <<store, now, qs>>

\* get_object_or_404(Comment, id=comment_id): post_id takes no part
CommentFound(pid, cid) == cid \in DOMAIN comments

\* edit_comment saving the bound form without form.is_valid()
edit_comment_unvalidated_mut(u, m, b, pid, cid) ==
    LET r == [Req("edit_comment", u, m, b) EXCEPT
                 !.post_id = pid, !.comment_id = cid, !.form = FormState(m, b)]
    IN  /\ u \in Users
        /\ CommentFound(pid, cid)
        /\ ~NotAuthor(u, comments[cid])
        /\ FormBound(m, b)
        /\ comments' = [comments EXCEPT ![cid].text = b.data]
        /\ resp' = Redirect(r, "blog:post_detail")
        /\ UNCHANGED <<posts, users, categories, nextPostId,
                       nextCommentId, now, qs>>

\* edit_comment(request, post_id, comment_id)
edit_comment(u, m, b, pid, cid) ==
    LET r0 == [Req("edit_comment", u, m, b) EXCEPT
                  !.post_id = pid, !.comment_id = cid]
        r == [r0 EXCEPT !.form = FormState(m, b)]
    IN  IF NeedsLogin(u)
        THEN /\ resp' = ToLogin(r0)
             /\ UNCHANGED <<store, now, qs>>
        ELSE IF ~CommentFound(pid, cid)
        THEN /\ resp' = NotFound(r0)
             /\ UNCHANGED <<store, now, qs>>
        ELSE IF NotAuthor(u, comments[cid])
        THEN /\ resp' = Redirect(r0, "blog:post_detail")
             /\ UNCHANGED <<store, now, qs>>
        ELSE IF is_valid(m, b)
        THEN /\ comments' = [comments EXCEPT ![cid].text = b.data]
             /\ resp' = Redirect(r, "blog:post_detail")
             /\ UNCHANGED <<posts, users, categories, nextPostId,
                            nextCommentId, now, qs>>
        ELSE /\ resp' = Render(r, "blog/comment.html")
             /\ UNCHANGED <<store, now, qs>>

\* delete_comment(request, post_id, comment_id)
delete_comment(u, m, b, pid, cid) ==
    LET r0 == [Req("delete_comment", u, m, b) EXCEPT
                  !.post_id = pid, !.comment_id = cid]
    IN  IF NeedsLogin(u)
        THEN /\ resp' = ToLogin(r0)
             /\ UNCHANGED <<store, now, qs>>
        ELSE IF ~CommentFound(pid, cid)
        THEN /\ resp' = NotFound(r0)
             /\ UNCHANGED <<store, now, qs>>
        ELSE IF NotAuthor(u, comments[cid])
        THEN /\ resp' = Redirect(r0, "blog:post_detail")
             /\ UNCHANGED <<store, now, qs>>
        ELSE IF DeleteConfirmed(m)
        THEN /\ comments' = Without(comments, cid)
             /\ resp' = Redirect(r0, "blog:post_detail")
             /\ UNCHANGED <<posts, users, categories, nextPostId,
                            nextCommentId, now, qs>>
        ELSE /\ resp' = Render(r0, "blog/comment.html")
             /\ UNCHANGED <<store, now, qs>>

\* edit_profile(request)
edit_profile(u, m, b) ==
    LET r0 == [Req("edit_profile", u, m, b) EXCEPT !.name = u]
        r == [r0 EXCEPT !.form = FormState(m, b)]
    IN  IF NeedsLogin(u)
        THEN /\ resp' = ToLogin(r0)
             /\ UNCHANGED <<store, now, qs>>
        ELSE IF u \notin DOMAIN users
        THEN /\ resp' = NotFound(r0)
             /\ UNCHANGED <<store, now, qs>>
        ELSE IF is_valid(m, b)
        THEN /\ users' = [users EXCEPT ![u] = b.data]
             /\ resp' = Redirect(r, "blog:profile")
             /\ UNCHANGED <<posts, comments, categories, nextPostId,
                            nextCommentId, now, qs>>
        ELSE /\ resp' = Render(r, "blog/user.html")
             /\ UNCHANGED <<store, now, qs>>

(* ------------------------------ environment --------------------------- *)
\* the clock advances between requests; no request is being answered
Tick ==
    /\ now < MaxTime
    /\ now' = now + 1
    /\ resp' = NoResp
    /\ UNCHANGED <<store, qs>>

\* get_paginated_page applied to the queryset qs
Paginate(param) ==
    /\ resp' = WithPage([NoResp EXCEPT !.view = "paginate"], param, qs)
    /\ UNCHANGED <<store, now, qs>>

(* ------------------------------ specifications ------------------------ *)
EmptyTable == [x \in {} |-> 0]

InitStore ==
    /\ posts = EmptyTable
    /\ comments = EmptyTable
    /\ users = [u \in Users |-> "a"]
    /\ nextPostId = 1
    /\ nextCommentId = 1
    /\ now = 0
    /\ qs = << >>
    /\ resp = NoResp

\* the Category table is filled outside these views: "misc" is published,
\* "news" is published or hidden
Init ==
    /\ InitStore
    /\ categories \in {c \in [Slugs -> BOOLEAN] : c["misc"]}

\* one hidden and one published category
InitFixed ==
    /\ InitStore
    /\ categories = [s \in Slugs |-> s = "misc"]

InitPage ==
    /\ posts = EmptyTable
    /\ comments = EmptyTable
    /\ users = [u \in Users |-> "a"]
    /\ categories = [s \in Slugs |-> TRUE]
    /\ nextPostId = 1
    /\ nextCommentId = 1
    /\ now = 0
    /\ qs \in {UpTo(n) : n \in 0..MaxCount}
    /\ resp = NoResp

\* The requests a form view is sent: a GET, which carries no body, and a POST
\* with each body over the cleaned data D.
Submissions(D) ==
    {[m |-> "GET", b |-> EmptyBody]} \cup {[m |-> "POST", b |-> x] : x \in Bodies(D)}

Reads(P) ==
    \/ \E g \in P : index(g)
    \/ \E s \in SlugArgs, g \in P : category_posts(s, g)
    \/ \E u \in Requesters, pid \in PostIds : post_detail(u, pid)
    \/ \E u \in Requesters, n \in Usernames, g \in P : profile(u, n, g)

PostWrites(D) ==
    \/ \E u \in Requesters, x \in Submissions(D) : create_post(u, x.m, x.b)
    \/ \E u \in Requesters, x \in Submissions(D), pid \in PostIds :
          edit_post(u, x.m, x.b, pid)
    \/ \E u \in Requesters, x \in Submissions({}), pid \in PostIds :
          delete_post(u, x.m, x.b, pid)

OtherWrites ==
    \/ \E u \in Requesters, x \in Submissions(Texts), pid \in PostIds :
          add_comment(u, x.m, x.b, pid)
    \/ \E u \in Requesters, x \in Submissions(Texts),
          pid \in PostIds, cid \in CommentIds :
          edit_comment(u, x.m, x.b, pid, cid)
    \/ \E u \in Requesters, x \in Submissions({}),
          pid \in PostIds, cid \in CommentIds :
          delete_comment(u, x.m, x.b, pid, cid)
    \/ \E u \in Requesters, x \in Submissions(Names) : edit_profile(u, x.m, x.b)

\* the whole application
Next == Reads(FeedPages) \/ PostWrites(PostData) \/ OtherWrites \/ Tick
Spec == Init /\ [][Next]_vars

\* the listings: posts are created, edited and deleted, the clock runs, and
\* the four read views are requested
NextFeed == Reads(FeedPages) \/ PostWrites(PostData) \/ Tick
SpecFeed == Init /\ [][NextFeed]_vars

\* the store: every handler that writes, and the detail page
NextStore == PostWrites(PostDataStore) \/ OtherWrites
SpecStore == InitFixed /\ [][NextStore]_vars

\* the pagination helper on querysets of 0..MaxCount rows
NextPage == \E g \in PageParams : Paginate(g)
SpecPage == InitPage /\ [][NextPage]_vars

(* ------------------------------ properties ---------------------------- *)
\* a post is publicly visible: published, in a published category, and due
PubliclyVisible(p) ==
    /\ posts[p].is_published = TRUE
    /\ posts[p].category \in Slugs
    /\ categories[posts[p].category] = TRUE
    /\ posts[p].pub_date <= now

\* the posts on all pages of the listing a response was cut from
OnAllPages(r) ==
    UNION { Range(PageItems(r.listing, k, NUMBER_OF_PAGINATOR_PAGES)) :
               k \in 1..r.num_pages }

\* C1: whatever was created, edited or deleted before and whatever the time,
\* the feed that index renders holds, over all its pages, exactly the stored
\* posts that are published, in a published category and not dated after
\* now; so a published post dated in the future is absent until the clock
\* reaches its pub_date and present from then on.
C1_FeedIffVisible ==
    resp.view = "index" =>
        /\ resp.status = "render"
        /\ \A p \in DOMAIN posts : p \in OnAllPages(resp) <=> PubliclyVisible(p)
        /\ OnAllPages(resp) \subseteq DOMAIN posts

\* the clock has reached the pub_date of a post that is now in the feed,
\* beside a stored post that is kept out of it
C1_Witness ==
    /\ resp.view = "index"
    /\ now > 0
    /\ \E p \in Range(resp.items) : posts[p].pub_date = now
    /\ \E p \in DOMAIN posts : p \notin Range(resp.items)

\* C2: post_detail answers a requester who is not the author with the page
\* only when the post is publicly visible and with 404 otherwise; a missing
\* post id is 404; the author always gets the page.
C2_DetailOnlyWhenVisible ==
    resp.view = "post_detail" =>
        IF resp.post_id \notin DOMAIN posts
        THEN resp.status = "404"
        ELSE IF posts[resp.post_id].author = resp.user
        THEN resp.status = "render"
        ELSE IF PubliclyVisible(resp.post_id)
        THEN resp.status = "render"
        ELSE resp.status = "404"

\* C4: the profile of an existing user lists, over all its pages, all of that
\* user's posts when the user asks, and exactly that user's publicly visible
\* posts when anyone else asks; an unknown username is 404.
C4_ProfileListing ==
    resp.view = "profile" =>
        IF resp.name \notin Users
        THEN resp.status = "404"
        ELSE /\ resp.status = "render"
             /\ OnAllPages(resp) =
                   IF resp.user = resp.name
                   THEN {p \in DOMAIN posts : posts[p].author = resp.name}
                   ELSE {p \in DOMAIN posts :
                           posts[p].author = resp.name /\ PubliclyVisible(p)}

\* a user looks at their own profile and sees a post nobody else would,
\* while the other user's post is left out
C4_Witness ==
    /\ resp.view = "profile"
    /\ resp.user = resp.name
    /\ \E p \in Range(resp.items) : ~PubliclyVisible(p)
    /\ \E p \in DOMAIN posts : posts[p].author # resp.name

\* C5: category_posts is 404 for a slug no category has and for a category
\* that is not published; otherwise it lists, over all its pages, exactly the
\* posts of that category that are published and not dated after now.
C5_CategoryListing ==
    resp.view = "category_posts" =>
        IF resp.name \notin Slugs \/ ~categories[resp.name]
        THEN resp.status = "404"
        ELSE /\ resp.status = "render"
             /\ OnAllPages(resp) =
                   {p \in DOMAIN posts :
                       /\ posts[p].category = resp.name
                       /\ posts[p].is_published
                       /\ posts[p].pub_date <= now}

\* a category page is rendered with a post on it while a publicly visible
\* post of another category is stored
C5_Witness ==
    /\ resp.view = "category_posts"
    /\ resp.status = "render"
    /\ resp.items # << >>
    /\ \E p \in DOMAIN posts :
          PubliclyVisible(p) /\ posts[p].category # resp.name

\* the page of a hidden category is asked for while it holds a published post
C5_HiddenWitness ==
    /\ resp.view = "category_posts"
    /\ resp.status = "404"
    /\ resp.name \in Slugs
    /\ \E p \in DOMAIN posts :
          posts[p].category = resp.name /\ posts[p].is_published

\* the request answered in this step targets a stored post that is not the
\* requester's (by post_id) or a stored comment that is not (by comment_id)
ForeignPost(r) ==
    /\ r.post_id \in DOMAIN posts
    /\ posts[r.post_id].author # r.user
ForeignComment(r) ==
    /\ r.comment_id \in DOMAIN comments
    /\ comments[r.comment_id].author # r.user
OwnPost(r) ==
    /\ r.post_id \in DOMAIN posts
    /\ posts[r.post_id].author = r.user
OwnComment(r) ==
    /\ r.comment_id \in DOMAIN comments
    /\ comments[r.comment_id].author = r.user

C3_Step ==
    ( /\ resp'.user \in Users
      /\ \/ resp'.view \in {"edit_post", "delete_post"} /\ ForeignPost(resp')
         \/ resp'.view \in {"edit_comment", "delete_comment"} /\ ForeignComment(resp') )
    => /\ store' = store
       /\ resp'.status = "redirect"
       /\ resp'.target = "blog:post_detail"

\* C3: a logged-in requester who is not the author of the post (edit_post,
\* delete_post) or comment (edit_comment, delete_comment) the request names
\* changes nothing in the store, whatever the method and body, and is
\* answered with a redirect to the post detail page.
C3_NonAuthorNoEffect == [][C3_Step]_vars

\* a POST to delete another user's comment has been answered
C3_Witness ==
    /\ resp.view = "delete_comment"
    /\ resp.method = "POST"
    /\ resp.user \in Users
    /\ ForeignComment(resp)
    /\ resp.status = "redirect"

\* a POST with valid fields to edit another user's post has been answered
C3_PostWitness ==
    /\ resp.view = "edit_post"
    /\ resp.method = "POST"
    /\ resp.body = "ok"
    /\ resp.user \in Users
    /\ ForeignPost(resp)
    /\ resp.status = "redirect"

FormViews ==
    {"create_post", "edit_post", "add_comment", "edit_comment", "edit_profile"}
FormTemplate(view) ==
    CASE view = "create_post" -> "blog/create.html"
      [] view = "edit_post" -> "blog/create.html"
      [] view = "edit_comment" -> "blog/comment.html"
      [] view = "edit_profile" -> "blog/user.html"
      [] OTHER -> "-"

C6_OriginalStep ==
    (resp'.view \in FormViews /\ resp'.form = "invalid")
    => /\ store' = store
       /\ resp'.status = "render"
       /\ resp'.view # "add_comment" => resp'.target = FormTemplate(resp'.view)

\* C6 as stated: in each of the five form views a submission whose form
\* fails validation changes nothing in the store and is answered by rendering
\* the form template again, not by a redirect.
C6_InvalidRerenders == [][C6_OriginalStep]_vars

C6_AmendedStep ==
    (resp'.view \in FormViews /\ resp'.form = "invalid")
    => /\ store' = store
       /\ IF resp'.view = "add_comment"
          THEN resp'.status = "redirect" /\ resp'.target = "blog:post_detail"
          ELSE resp'.status = "render"
               /\ resp'.target = FormTemplate(resp'.view)

\* C6 amended: a submission whose form fails validation changes nothing in
\* the store; create_post, edit_post, edit_comment and edit_profile answer it
\* by rendering their form template again with the bound form, and
\* add_comment answers it with a redirect to the post detail page.
C6_InvalidKeepsStore == [][C6_AmendedStep]_vars

\* an invalid comment form has been answered with a redirect
C6_Witness ==
    /\ resp.view = "add_comment"
    /\ resp.form = "invalid"
    /\ resp.status = "redirect"
    /\ comments = EmptyTable

\* an invalid edit of one's own post has been answered with the form
C6_RenderWitness ==
    /\ resp.view = "edit_post"
    /\ resp.form = "invalid"
    /\ resp.status = "render"

C8_Step ==
    /\ store' # store => resp'.user \in Users
    /\ \A p \in DOMAIN posts' \ DOMAIN posts :
          /\ resp'.view = "create_post"
          /\ posts'[p].author = resp'.user
    /\ \A c \in DOMAIN comments' \ DOMAIN comments :
          /\ resp'.view = "add_comment"
          /\ comments'[c].author = resp'.user
          /\ comments'[c].post = resp'.post_id
          /\ resp'.post_id \in DOMAIN posts
    /\ \A p \in DOMAIN posts :
          (p \notin DOMAIN posts' \/ posts'[p] # posts[p])
          => resp'.user = posts[p].author
    /\ \A p \in DOMAIN posts \cap DOMAIN posts' :
          posts'[p].author = posts[p].author
    /\ \A c \in DOMAIN comments :
          (c \notin DOMAIN comments' \/ comments'[c] # comments[c])
          => \/ resp'.user = comments[c].author
             \/ comments[c].post \notin DOMAIN posts'
    /\ \A c \in DOMAIN comments \cap DOMAIN comments' :
          /\ comments'[c].author = comments[c].author
          /\ comments'[c].post = comments[c].post

\* C8: a post or comment enters the store only through create_post or
\* add_comment sent by a logged-in user, with that user as its author (and,
\* for a comment, the existing post of the request as its post), and keeps
\* that author; an anonymous request never changes the store; a post or
\* comment is changed or deleted only by a request of its author, or, for a
\* comment, by the deletion of its post.
C8_AuthorOwnsChanges == [][C8_Step]_vars

\* a comment stored by the request just answered, on another user's post
C8_Witness ==
    /\ resp.view = "add_comment"
    /\ resp.comment_id \in DOMAIN comments
    /\ comments[resp.comment_id].author = resp.user
    /\ comments[resp.comment_id].post = resp.post_id
    /\ posts[resp.post_id].author # resp.user

C9_Step ==
    /\ (resp'.view = "delete_post" /\ resp'.user \in Users /\ OwnPost(resp'))
       => IF resp'.method = "POST"
          THEN /\ posts' = Without(posts, resp'.post_id)
               /\ \A c \in DOMAIN comments :
                     comments[c].post # resp'.post_id
                     => c \in DOMAIN comments' /\ comments'[c] = comments[c]
               /\ DOMAIN comments' \subseteq DOMAIN comments
               /\ users' = users
               /\ resp'.status = "redirect"
               /\ resp'.target = "blog:index"
          ELSE /\ store' = store
               /\ resp'.status = "render"
               /\ resp'.target = "blog/create.html"
    /\ (resp'.view = "delete_comment" /\ resp'.user \in Users /\ OwnComment(resp'))
       => IF resp'.method = "POST"
          THEN /\ comments' = Without(comments, resp'.comment_id)
               /\ posts' = posts
               /\ users' = users
               /\ resp'.status = "redirect"
               /\ resp'.target = "blog:post_detail"
          ELSE /\ store' = store
               /\ resp'.status = "render"
               /\ resp'.target = "blog/comment.html"
    /\ ( /\ resp'.user \in Users
         /\ \/ resp'.view = "delete_post" /\ resp'.post_id \notin DOMAIN posts
            \/ resp'.view = "delete_comment"
               /\ resp'.comment_id \notin DOMAIN comments )
       => store' = store /\ resp'.status = "404"

C9_DeletedWitness ==
    /\ resp.view = "delete_post"
    /\ resp.method = "POST"
    /\ resp.status = "redirect"
    /\ resp.target = "blog:index"
    /\ resp.post_id \notin DOMAIN posts
    /\ posts # EmptyTable

C10_Step ==
    ( /\ resp'.view \in {"edit_comment", "delete_comment"}
      /\ resp'.comment_id \in DOMAIN comments
      /\ comments[resp'.comment_id].post # resp'.post_id )
    => /\ resp'.comment_id \in DOMAIN comments'
       /\ comments'[resp'.comment_id] = comments[resp'.comment_id]

\* C10: edit_comment and delete_comment change or remove the comment named
\* by comment_id only when it belongs to the post named by post_id in the
\* same request.
C10_CommentOfThatPost == [][C10_Step]_vars

\* the pages of a listing of n rows, counted without the paginator: the
\* least k >= 1 with k pages of ten holding all n rows
PagesNeeded(n) ==
    CHOOSE k \in 1..(n + 1) :
        /\ k * NUMBER_OF_PAGINATOR_PAGES >= n
        /\ k > 1 => (k - 1) * NUMBER_OF_PAGINATOR_PAGES < n

\* the page a response shows is the slice of qs that starts after the rows
\* of the pages before it, ten rows long or as long as the rows that are left
IsSlice(r) ==
    LET before == (r.number - 1) * NUMBER_OF_PAGINATOR_PAGES
    IN  /\ Len(r.items) <= NUMBER_OF_PAGINATOR_PAGES
        /\ Len(r.items) =
              IF Len(qs) - before >= NUMBER_OF_PAGINATOR_PAGES
              THEN NUMBER_OF_PAGINATOR_PAGES ELSE Len(qs) - before
        /\ \A i \in 1..Len(r.items) : r.items[i] = qs[before + i]

\* pages 1..k one after the other
RECURSIVE PagesJoined(_, _)
PagesJoined(q, k) ==
    IF k = 0 THEN << >>
    ELSE PagesJoined(q, k - 1) \o PageItems(q, k, NUMBER_OF_PAGINATOR_PAGES)

\* C7 as stated: get_paginated_page never fails; an absent or invalid page
\* parameter (not an integer, zero, negative) gives the first page, one beyond
\* the last page gives the last page, a valid k gives page k; the page holds
\* at most ten items, the k-th slice of the listing, and the pages together
\* hold every row once.
C7_LowPageIsFirst ==
    resp.view = "paginate" =>
        /\ resp.num_pages = PagesNeeded(Len(qs))
        /\ resp.number =
              IF resp.param.kind # "int" \/ resp.param.n < 1 THEN 1
              ELSE IF resp.param.n > PagesNeeded(Len(qs))
              THEN PagesNeeded(Len(qs))
              ELSE resp.param.n
        /\ IsSlice(resp)
        /\ PagesJoined(qs, resp.num_pages) = qs

\* C7 amended: get_paginated_page never fails; an absent or non-integer page
\* parameter gives the first page, an integer below 1 (zero, negative) or
\* beyond the last page gives the last page, a valid k gives page k; the page
\* holds at most ten items, the k-th slice of the listing, and the pages
\* together hold every row once.
C7_PageFallbacks ==
    resp.view = "paginate" =>
        /\ resp.num_pages = PagesNeeded(Len(qs))
        /\ resp.number =
              IF resp.param.kind # "int" THEN 1
              ELSE IF resp.param.n < 1 \/ resp.param.n > PagesNeeded(Len(qs))
              THEN PagesNeeded(Len(qs))
              ELSE resp.param.n
        /\ IsSlice(resp)
        /\ PagesJoined(qs, resp.num_pages) = qs

\* page=0 on a listing of three pages has been answered with the third,
\* which is not full
C7_Witness ==
    /\ resp.view = "paginate"
    /\ resp.param = IntPage(0)
    /\ resp.num_pages = 3
    /\ resp.number = 3
    /\ Len(resp.items) = 1

\* page=999 on a listing of one page has been answered with that page
C7_BeyondWitness ==
    /\ resp.view = "paginate"
    /\ resp.param = IntPage(999)
    /\ resp.num_pages = 1
    /\ resp.number = 1
    /\ Len(resp.items) > 0

====
